---- MODULE Spec2Model ----
(***************************************************************************)
(* A model of rust-uinput's two-phase protocol: the capability Builder     *)
(* (src/device/builder.rs) and the Device writer (src/device/device.rs).   *)
(*                                                                         *)
(* The state is one caller's Builder and the Device it may turn into, the  *)
(* log of the system calls issued on the handle (calls), and the history   *)
(* of the API calls made so far (trace).  The kernel is the environment:   *)
(* the result of every ioctl and write is chosen nondeterministically.     *)
(* The timestamp gettimeofday puts in each event record is left out of the *)
(* records: no statement checked here reads it.                            *)
(***************************************************************************)
EXTENDS Integers, Sequences, FiniteSets, TLC

VARIABLES pc, fd, opened, def, abs, calls, trace, fuel

vars == <<pc, fd, opened, def, abs, calls, trace, fuel>>

(***************************************************************************)
(* Exploration bounds.                                                     *)
(***************************************************************************)
\* event() calls explored on one builder
MaxEvents == 2
\* max/min/fuzz/flat calls explored after a single event() call
MaxSetters == 4
\* max/min/fuzz/flat calls explored among MaxEvents event() calls
MaxFewSetters == 1
\* device calls explored when every system call succeeds
MaxDeviceOps == 3
\* device calls explored when system calls may fail
MaxFaultyOps == 2
\* concrete codes enumerated per leaf enum by iter_variants()
NVariants == 1
\* name() calls explored on one builder
MaxNames == 2

(***************************************************************************)
(* Constants of the kernel interface (the ffi crate).                      *)
(***************************************************************************)
EV_SYN == 0
EV_KEY == 1
EV_REL == 2
EV_ABS == 3
SYN_REPORT == 0
ABS_CNT == 64
UINPUT_MAX_NAME_SIZE == 80

\* the handles fcntl::open may return
Fds == {3}

\* Errno::result turns a negative ioctl return into one of these
IoctlErrors == {"EINVAL", "EPERM"}
IoctlResults == {"ok"} \cup IoctlErrors

\* unistd::write returns Ok(n) with n the whole buffer ("full") or less
\* ("short"), or Err(errno)
WriteErrors == {"ENODEV"}
WriteResults == {"full", "short"} \cup WriteErrors

\* fcntl::open returns the handle or Err(errno)
OpenResults == {"ok", "ENOENT"}

\* ui_dev_destroy returns 0 or fails
DestroyResults == {"ok", "EINVAL"}

\* the i32 values passed to max/min/fuzz/flat, to send and to position
RangeValues == {-10, 10}
SendValues == {-1, 50}
PositionValues == {50}

\* the u16 values passed to bus/vendor/product/version
IdValues == {3, 4660}

\* n times the code point c
Rep(c, n) == [i \in 1..n |-> c]

\* the strings passed to name(): "", "te", "test", "a\0b", "\u{e9}", and
\* strings whose encoding ends around the capacity of the buffer: of
\* one-byte code points, and of two-byte code points
NameInputs ==
  {<<>>, <<116, 101>>, <<116, 101, 115, 116>>, <<97, 0, 98>>, <<233>>,
   Rep(97, UINPUT_MAX_NAME_SIZE - 2),
   Rep(97, UINPUT_MAX_NAME_SIZE - 1),
   Rep(97, UINPUT_MAX_NAME_SIZE),
   Rep(233, (UINPUT_MAX_NAME_SIZE \div 2) - 1) \o <<97>>,
   Rep(233, UINPUT_MAX_NAME_SIZE \div 2)}

\* fuel.faults switches the environment's failures on; without it every
\* system call succeeds in full
Allowed(r) == fuel.faults \/ r \in {"ok", "full"}

(***************************************************************************)
(* Events: the tagged union Event, with the "all" pseudo-variants.         *)
(***************************************************************************)
Ev(c, s, i) == [class |-> c, sub |-> s, idx |-> i]

AllEvents == Ev("All", "All", 0)
KeyboardAll == Ev("Keyboard", "All", 0)
ControllerAll == Ev("Controller", "All", 0)
Esc == Ev("Keyboard", "Key", 0)
Left == Ev("Controller", "Mouse", 0)
X == Ev("Relative", "Position", 0)
Y == Ev("Relative", "Position", 1)
AbsX == Ev("Absolute", "Position", 0)
AbsY == Ev("Absolute", "Position", 1)

IsAll(e) == e.sub = "All"

\* the variants of the enums Keyboard and Controller besides All: one per
\* leaf enum
KeyboardVariants ==
  {"Key", "KeyPad", "Misc", "InputAssist", "Function", "Braille", "Numeric",
   "TouchPad", "Camera", "Attendant"}
ControllerVariants ==
  {"Misc", "Mouse", "JoyStick", "GamePad", "Digi", "Wheel", "DPad",
   "TriggerHappy"}

\* (mutant) the loop over one leaf enum is missing
KeyboardSubsWithoutBraille ==
  <<"Key", "KeyPad", "Misc", "InputAssist", "Function", "Numeric",
    "TouchPad", "Camera", "Attendant">>

\* the leaf enums in the order event() iterates them
KeyboardSubs ==
  <<"Key", "KeyPad", "Misc", "InputAssist", "Function", "Braille", "Numeric",
    "TouchPad", "Camera", "Attendant">>

ControllerSubs ==
  <<"Misc", "Mouse", "JoyStick", "GamePad", "Digi", "Wheel", "DPad",
    "TriggerHappy">>

\* T::iter_variants(): the concrete codes of one leaf enum, in declaration order
iter_variants(c, s) == [i \in 1..NVariants |-> Ev(c, s, i - 1)]

\* Kind::kind()
Kind(e) ==
  CASE e.class = "Keyboard" -> EV_KEY
    [] e.class = "Controller" -> EV_KEY
    [] e.class = "Relative" -> EV_REL
    [] e.class = "Absolute" -> EV_ABS

\* the first code of each leaf enum
CodeBase(c, s) ==
  CASE c = "Keyboard" /\ s = "Key" -> 1
    [] c = "Keyboard" /\ s = "KeyPad" -> 71
    [] c = "Keyboard" /\ s = "Misc" -> 113
    [] c = "Keyboard" /\ s = "InputAssist" -> 608
    [] c = "Keyboard" /\ s = "Function" -> 464
    [] c = "Keyboard" /\ s = "Braille" -> 497
    [] c = "Keyboard" /\ s = "Numeric" -> 512
    [] c = "Keyboard" /\ s = "TouchPad" -> 530
    [] c = "Keyboard" /\ s = "Camera" -> 533
    [] c = "Keyboard" /\ s = "Attendant" -> 540
    [] c = "Controller" /\ s = "Misc" -> 256
    [] c = "Controller" /\ s = "Mouse" -> 272
    [] c = "Controller" /\ s = "JoyStick" -> 288
    [] c = "Controller" /\ s = "GamePad" -> 304
    [] c = "Controller" /\ s = "Digi" -> 320
    [] c = "Controller" /\ s = "Wheel" -> 336
    [] c = "Controller" /\ s = "DPad" -> 544
    [] c = "Controller" /\ s = "TriggerHappy" -> 704
    [] c = "Relative" /\ s = "Position" -> 0
    [] c = "Absolute" /\ s = "Position" -> 0

\* Code::code()
Code(e) == CodeBase(e.class, e.sub) + e.idx

(***************************************************************************)
(* The descriptor uinput_user_dev: the name buffer of UINPUT_MAX_NAME_SIZE *)
(* bytes, the four identifiers, and the four per-axis arrays of ABS_CNT    *)
(* entries.  An array is kept as the map of the entries written since      *)
(* mem::zeroed(); every other entry of its index range reads as zero.      *)
(***************************************************************************)
Zeroed ==
  [name |-> <<>>, bustype |-> 0, vendor |-> 0, product |-> 0, version |-> 0,
   absmax |-> <<>>, absmin |-> <<>>, absfuzz |-> <<>>, absflat |-> <<>>]

\* arr[i], for i in the index range of the array
At(arr, i) == IF i \in DOMAIN arr THEN arr[i] ELSE 0

\* arr with arr[a] = v
Store(arr, a, v) == [i \in DOMAIN arr \cup {a} |-> IF i = a THEN v ELSE arr[i]]

\* the payload create() hands to write(): the struct as it lies in memory
Encode(d) == <<d>>

(***************************************************************************)
(* System calls on the handle.                                             *)
(***************************************************************************)
Call(f, op, data, arg, res) ==
  [fd |-> f, op |-> op, data |-> data, arg |-> arg, res |-> res]

U16(x) == x % 65536

\* the handles a sequence of calls closes
Closed(cs) == {cs[i].fd : i \in {j \in DOMAIN cs : cs[j].op = "close"}}

\* what a Builder going out of scope calls on its handle: Builder has no Drop
\* impl and fd is a plain c_int, so nothing, and the handle stays open
BuilderDropCalls(f) == <<>>

(***************************************************************************)
(* Builder::event                                                          *)
(***************************************************************************)
RECURSIVE VariantsOf(_, _, _)
\* the for loops over the leaf enums, from the i-th on
VariantsOf(c, subs, i) ==
  IF i > Len(subs) THEN <<>>
  ELSE iter_variants(c, subs[i]) \o VariantsOf(c, subs, i + 1)

\* the concrete events event(e) registers, in order
Expand(e) ==
  IF e.class = "All"
    THEN VariantsOf("Keyboard", KeyboardSubs, 1)
         \o VariantsOf("Controller", ControllerSubs, 1)
  ELSE IF IsAll(e) /\ e.class = "Keyboard"
    THEN VariantsOf("Keyboard", KeyboardSubs, 1)
  ELSE IF IsAll(e) /\ e.class = "Controller"
    THEN VariantsOf("Controller", ControllerSubs, 1)
  ELSE <<e>>

\* the class-specific registration request of a concrete event
SetBit(e) ==
  CASE e.class = "Keyboard" -> "ui_set_keybit"
    [] e.class = "Controller" -> "ui_set_keybit"
    [] e.class = "Relative" -> "ui_set_relbit"
    [] e.class = "Absolute" -> "ui_set_absbit"

\* (mutant) the code bit is requested before the event-class bit
RegistrationCodeFirst(e) ==
  <<[op |-> SetBit(e), arg |-> <<Code(e)>>],
    [op |-> "ui_set_evbit", arg |-> <<Kind(e)>>]>>

\* the two registration calls of a concrete event, in the order of the code
Registration(e) ==
  <<[op |-> "ui_set_evbit", arg |-> <<Kind(e)>>],
    [op |-> SetBit(e), arg |-> <<Code(e)>>]>>

RECURSIVE RegistrationsFrom(_, _)
RegistrationsFrom(es, i) ==
  IF i > Len(es) THEN <<>>
  ELSE Registration(es[i]) \o RegistrationsFrom(es, i + 1)

\* the arguments event() is explored with
BuilderEvents ==
  {Esc, Left, X, Y, AbsX, AbsY, KeyboardAll, ControllerAll, AllEvents}

\* the requests event(e) makes when no call fails, in order
Requests == [e \in BuilderEvents |-> RegistrationsFrom(Expand(e), 1)]

\* every call event(e) issues on handle f when no call fails
Planned(f, e) ==
  [i \in 1..Len(Requests[e]) |->
     Call(f, Requests[e][i].op, "", Requests[e][i].arg, "ok")]

\* (mutant) the error of the k-th call is kept but the remaining calls are
\* still issued
IssuedBestEffort(planned, k, err) ==
  [i \in 1..Len(planned) |->
     IF i = k THEN [planned[i] EXCEPT !.res = err] ELSE planned[i]]

\* (mutant) the error of the k-th call is looked at only after the call that
\* follows it
IssuedOneMore(planned, k, err) ==
  [i \in 1..(IF k = 0 \/ k = Len(planned) THEN Len(planned) ELSE k + 1) |->
     IF i = k THEN [planned[i] EXCEPT !.res = err] ELSE planned[i]]

\* the `?` after each call: with k = 0 every planned call is issued and
\* succeeds; otherwise the k-th call fails with err and event() returns there
Issued(planned, k, err) ==
  [i \in 1..(IF k = 0 THEN Len(planned) ELSE k) |->
     IF i = k THEN [planned[i] EXCEPT !.res = err] ELSE planned[i]]

\* (mutant) event() does not clear the axis on entry
AbsAfterNoReset(e) == IF e.class = "Absolute" THEN <<Code(e)>> ELSE abs

\* (mutant) the Absolute arm stores the event's kind instead of its code
AbsAfterKind(e) == IF e.class = "Absolute" THEN <<Kind(e)>> ELSE <<>>

\* self.abs after a successful event(e): None on entry, Some(code) at the end
\* of the Absolute arm
AbsAfter(e) == IF e.class = "Absolute" THEN <<Code(e)>> ELSE <<>>

\* one entry of the API history; base is the length of calls when it started
Op(op, ev, val, res) ==
  [op |-> op, ev |-> ev, val |-> val, res |-> res, base |-> Len(calls)]

Event(e, k, err) ==
  /\ pc = "builder"
  /\ fuel.ev > 0
  /\ k \in 0..Len(Planned(fd, e))
  /\ k = 0 \/ fuel.faults
  /\ IF k = 0
       THEN /\ pc' = "builder"
            /\ abs' = AbsAfter(e)
            /\ calls' = calls \o Issued(Planned(fd, e), k, err)
            /\ trace' = Append(trace, Op("event", <<e>>, 0, "ok"))
            /\ opened' = opened
       ELSE /\ pc' = "builder_dropped"
            /\ abs' = <<>>
            /\ calls' = calls \o Issued(Planned(fd, e), k, err)
                              \o BuilderDropCalls(fd)
            /\ trace' = Append(trace, Op("event", <<e>>, 0, err))
            /\ opened' = opened \ Closed(BuilderDropCalls(fd))
  /\ fuel' = [fuel EXCEPT !.ev = @ - 1]
  /\ UNCHANGED <<fd, def>>

(***************************************************************************)
(* Builder::max, min, fuzz, flat                                           *)
(***************************************************************************)
\* (mutant) unwrap_or(0): no axis means axis 0
UnwrapOrZero(o) == [panic |-> FALSE, v |-> IF o = <<>> THEN 0 ELSE o[1]]

\* Option::unwrap: panics on None
Unwrap(o) == [panic |-> o = <<>>, v |-> IF o = <<>> THEN 0 ELSE o[1]]

\* (mutant) every setter writes absmax
SetRangeAlwaysMax(d, field, a, v) == [d EXCEPT !.absmax = Store(@, a, v)]

\* self.def.<field>[a as usize] = v
SetRange(d, field, a, v) == [d EXCEPT ![field] = Store(@, a, v)]

RangeSetter(op, field, v) ==
  /\ pc = "builder"
  /\ fuel.set > 0
  /\ LET u == Unwrap(abs) IN
       IF u.panic \/ u.v < 0 \/ u.v >= ABS_CNT
         THEN /\ pc' = "builder_dropped"
              /\ def' = def
              /\ calls' = calls \o BuilderDropCalls(fd)
              /\ opened' = opened \ Closed(BuilderDropCalls(fd))
              /\ trace' = Append(trace, Op(op, <<>>, v, "panic"))
         ELSE /\ pc' = "builder"
              /\ def' = SetRange(def, field, u.v, v)
              /\ trace' = Append(trace, Op(op, <<>>, v, "ok"))
              /\ UNCHANGED <<calls, opened>>
  /\ fuel' = [fuel EXCEPT !.set = @ - 1]
  /\ UNCHANGED <<fd, abs>>

Max(v) == RangeSetter("max", "absmax", v)
Min(v) == RangeSetter("min", "absmin", v)
Fuzz(v) == RangeSetter("fuzz", "absfuzz", v)
Flat(v) == RangeSetter("flat", "absflat", v)

(***************************************************************************)
(* Builder::name.  A string is the sequence of its code points (below      *)
(* 2048); the buffer holds i8 values.                                      *)
(***************************************************************************)
\* the UTF-8 encoding of one code point
Utf8Char(c) ==
  IF c < 128 THEN <<c>> ELSE <<192 + (c \div 64), 128 + (c % 64)>>

RECURSIVE Utf8(_)
\* value.as_ref() handed to CString::new: the bytes of the str
Utf8(s) == IF s = <<>> THEN <<>> ELSE Utf8Char(Head(s)) \o Utf8(Tail(s))

\* CString::new returns Err(NulError) when a byte of its argument is zero
HasNul(bs) == \E i \in DOMAIN bs : bs[i] = 0

\* CString::as_bytes_with_nul
as_bytes_with_nul(bs) == Append(bs, 0)

\* the casts between u8 and i8
I8(b) == IF b >= 128 THEN b - 256 ELSE b
U8(b) == b % 256

\* (mutant) the terminator is not counted against the capacity
NameResultTerminatorFree(s) ==
  IF HasNul(Utf8(s)) THEN "NulError"
  ELSE IF Len(Utf8(s)) > UINPUT_MAX_NAME_SIZE THEN "EINVAL"
  ELSE "ok"

\* the result of name(s): CString::new(..)?, then the length test
NameResult(s) ==
  IF HasNul(Utf8(s)) THEN "NulError"
  ELSE IF Len(as_bytes_with_nul(Utf8(s))) > UINPUT_MAX_NAME_SIZE THEN "EINVAL"
  ELSE "ok"

\* (mutant) the terminator is not copied
CopyNameUnterminated(buf, bytes) ==
  [i \in DOMAIN buf \cup 0..(Len(bytes) - 2) |->
     IF i < Len(bytes) - 1 THEN I8(bytes[i + 1]) ELSE buf[i]]

\* (&mut self.def.name)[..bytes.len()].clone_from_slice(bytes as [i8])
CopyName(buf, bytes) ==
  [i \in DOMAIN buf \cup 0..(Len(bytes) - 1) |->
     IF i < Len(bytes) THEN I8(bytes[i + 1]) ELSE buf[i]]

Name(s) ==
  /\ pc = "builder"
  /\ fuel.name > 0
  /\ IF NameResult(s) = "ok"
       THEN /\ pc' = "builder"
            /\ def' = [def EXCEPT
                         !.name = CopyName(@, as_bytes_with_nul(Utf8(s)))]
            /\ UNCHANGED <<calls, opened>>
       ELSE /\ pc' = "builder_dropped"
            /\ def' = def
            /\ calls' = calls \o BuilderDropCalls(fd)
            /\ opened' = opened \ Closed(BuilderDropCalls(fd))
  /\ trace' = Append(trace, Op("name", <<>>, s, NameResult(s)))
  /\ fuel' = [fuel EXCEPT !.name = @ - 1]
  /\ UNCHANGED <<fd, abs>>

(***************************************************************************)
(* Builder::bus, vendor, product, version                                  *)
(***************************************************************************)
\* (mutant) an identifier setter forgets the configured axis
IdSetterClearsAxis(op, field, v) ==
  /\ pc = "builder"
  /\ fuel.id > 0
  /\ def' = [def EXCEPT ![field] = U16(v)]
  /\ abs' = <<>>
  /\ trace' = Append(trace, Op(op, <<>>, v, "ok"))
  /\ fuel' = [fuel EXCEPT !.id = @ - 1]
  /\ UNCHANGED <<pc, fd, opened, calls>>

\* self.def.id.<field> = value
IdSetter(op, field, v) ==
  /\ pc = "builder"
  /\ fuel.id > 0
  /\ def' = [def EXCEPT ![field] = U16(v)]
  /\ trace' = Append(trace, Op(op, <<>>, v, "ok"))
  /\ fuel' = [fuel EXCEPT !.id = @ - 1]
  /\ UNCHANGED <<pc, fd, opened, abs, calls>>

Bus(v) == IdSetter("bus", "bustype", v)
Vendor(v) == IdSetter("vendor", "vendor", v)
Product(v) == IdSetter("product", "product", v)
Version(v) == IdSetter("version", "version", v)

(***************************************************************************)
(* Builder::open, Builder::create, and a Builder going out of scope        *)
(***************************************************************************)
Open(f, r) ==
  /\ pc = "start"
  /\ Allowed(r)
  /\ IF r = "ok"
       THEN /\ pc' = "builder"
            /\ fd' = f
            /\ opened' = opened \cup {f}
       ELSE /\ pc' = "open_failed"
            /\ UNCHANGED <<fd, opened>>
  /\ def' = Zeroed
  /\ abs' = <<>>
  /\ trace' = Append(trace, Op("open", <<>>, 0, r))
  /\ UNCHANGED <<calls, fuel>>

\* (mutant) a capability is registered once the device exists
CreateCallsThenRegister(f, d, rw, rc) ==
  <<Call(f, "write", "uinput_user_dev", Encode(d), rw)>>
  \o (IF rw \in WriteErrors THEN <<>>
      ELSE <<Call(f, "ui_dev_create", "", <<>>, rc),
             Call(f, "ui_set_evbit", "", <<EV_SYN>>, "ok")>>)

\* the descriptor write, then, unless the write returned Err, the creation call
CreateCalls(f, d, rw, rc) ==
  <<Call(f, "write", "uinput_user_dev", Encode(d), rw)>>
  \o (IF rw \in WriteErrors THEN <<>>
      ELSE <<Call(f, "ui_dev_create", "", <<>>, rc)>>)

\* (mutant) the result of ui_dev_create is not looked at
CreateResultUnchecked(rw, rc) == IF rw \in WriteErrors THEN rw ELSE "ok"

CreateResult(rw, rc) == IF rw \in WriteErrors THEN rw ELSE rc

Create(rw, rc) ==
  /\ pc = "builder"
  /\ Allowed(rw) /\ Allowed(rc)
  /\ IF CreateResult(rw, rc) = "ok"
       THEN /\ pc' = "device"
            /\ calls' = calls \o CreateCalls(fd, def, rw, rc)
            /\ opened' = opened
       ELSE /\ pc' = "builder_dropped"
            /\ calls' = calls \o CreateCalls(fd, def, rw, rc)
                              \o BuilderDropCalls(fd)
            /\ opened' = opened \ Closed(BuilderDropCalls(fd))
  /\ trace' = Append(trace, Op("create", <<>>, 0, CreateResult(rw, rc)))
  /\ UNCHANGED <<fd, def, abs, fuel>>

BuilderDrop ==
  /\ pc = "builder"
  /\ pc' = "builder_dropped"
  /\ calls' = calls \o BuilderDropCalls(fd)
  /\ opened' = opened \ Closed(BuilderDropCalls(fd))
  /\ trace' = Append(trace, Op("drop_builder", <<>>, 0, "ok"))
  /\ UNCHANGED <<fd, def, abs, fuel>>

(***************************************************************************)
(* Device                                                                  *)
(***************************************************************************)
\* Device::new wraps any descriptor number
New(f) ==
  /\ pc = "start"
  /\ pc' = "device"
  /\ fd' = f
  /\ def' = Zeroed
  /\ abs' = <<>>
  /\ trace' = Append(trace, Op("new", <<>>, 0, "ok"))
  /\ UNCHANGED <<opened, calls, fuel>>

\* (mutant) kind and code change places in the record
WriteCallSwapped(f, kind, code, value, r) ==
  Call(f, "write", "input_event", <<U16(code), U16(kind), value>>, r)

\* Device::write: one input_event record, kind and code cast to u16
WriteCall(f, kind, code, value, r) ==
  Call(f, "write", "input_event", <<U16(kind), U16(code), value>>, r)

\* the `?` on unistd::write: Err returns, Ok(n) of any n goes on
WriteResult(r) == IF r \in WriteErrors THEN r ELSE "ok"

\* (mutant) once a write has failed the Device refuses to write
EmitUnlessFailedBefore(op, ev, kind, code, value, r) ==
  /\ pc = "device"
  /\ fuel.dev > 0
  /\ Allowed(r)
  /\ IF \E i \in DOMAIN calls : calls[i].res \in WriteErrors
       THEN /\ calls' = calls
            /\ trace' = Append(trace, Op(op, ev, value, "ENODEV"))
       ELSE /\ calls' = Append(calls, WriteCall(fd, kind, code, value, r))
            /\ trace' = Append(trace, Op(op, ev, value, WriteResult(r)))
  /\ fuel' = [fuel EXCEPT !.dev = @ - 1]
  /\ UNCHANGED <<pc, fd, opened, def, abs>>

\* a method that is a single call of Device::write
Emit(op, ev, kind, code, value, r) ==
  /\ pc = "device"
  /\ fuel.dev > 0
  /\ Allowed(r)
  /\ calls' = Append(calls, WriteCall(fd, kind, code, value, r))
  /\ trace' = Append(trace, Op(op, ev, value, WriteResult(r)))
  /\ fuel' = [fuel EXCEPT !.dev = @ - 1]
  /\ UNCHANGED <<pc, fd, opened, def, abs>>

\* the events the device methods are explored with
SendEvents == {X, Y}
PressEvents == {Left}
PositionEvents == {AbsX}

Synchronize(r) == Emit("synchronize", <<>>, EV_SYN, SYN_REPORT, 0, r)
Send(e, v, r) == Emit("send", <<e>>, Kind(e), Code(e), v, r)
Press(e, r) == Emit("press", <<e>>, Kind(e), Code(e), 1, r)
Release(e, r) == Emit("release", <<e>>, Kind(e), Code(e), 0, r)
Position(e, v, r) == Emit("position", <<e>>, Kind(e), Code(e), v, r)

\* (mutant) the release is written before the press
ClickCallsReleaseFirst(f, e, r1, r2) ==
  <<Call(f, "write", "input_event", <<U16(Kind(e)), U16(Code(e)), 0>>, r1)>>
  \o (IF r1 \in WriteErrors THEN <<>>
      ELSE <<Call(f, "write", "input_event",
                  <<U16(Kind(e)), U16(Code(e)), 1>>, r2)>>)

\* press(event)?; release(event)?
ClickCalls(f, e, r1, r2) ==
  <<WriteCall(f, Kind(e), Code(e), 1, r1)>>
  \o (IF WriteResult(r1) # "ok" THEN <<>>
      ELSE <<WriteCall(f, Kind(e), Code(e), 0, r2)>>)

ClickResult(r1, r2) ==
  IF WriteResult(r1) # "ok" THEN WriteResult(r1) ELSE WriteResult(r2)

Click(e, r1, r2) ==
  /\ pc = "device"
  /\ fuel.dev > 0
  /\ Allowed(r1) /\ Allowed(r2)
  /\ calls' = calls \o ClickCalls(fd, e, r1, r2)
  /\ trace' = Append(trace, Op("click", <<e>>, 0, ClickResult(r1, r2)))
  /\ fuel' = [fuel EXCEPT !.dev = @ - 1]
  /\ UNCHANGED <<pc, fd, opened, def, abs>>

\* (mutant) the drop forgets the device
DeviceDropNothing(f, r) == <<>>

\* impl Drop for Device: ui_dev_destroy(self.fd), its return value ignored
DeviceDropCalls(f, r) == <<Call(f, "ui_dev_destroy", "", <<>>, r)>>

DeviceDrop(r) ==
  /\ pc = "device"
  /\ Allowed(r)
  /\ pc' = "device_dropped"
  /\ calls' = calls \o DeviceDropCalls(fd, r)
  /\ opened' = opened \ Closed(DeviceDropCalls(fd, r))
  /\ trace' = Append(trace, Op("drop_device", <<>>, 0, "ok"))
  /\ UNCHANGED <<fd, def, abs, fuel>>

(***************************************************************************)
(* The specifications.  fuel bounds the calls a behaviour makes.           *)
(*   Spec        registration and lifecycle: open, event, create, drop,    *)
(*               with failing system calls                                 *)
(*   SpecRange   axis configuration: event and max/min/fuzz/flat on a      *)
(*               builder whose system calls succeed; either one event()    *)
(*               call and many setters, or many event() calls and few      *)
(*               setters                                                   *)
(*   SpecDevice  the device writer: many calls that succeed, or fewer      *)
(*               calls that may fail                                       *)
(*   SpecName    the descriptor's name and identifiers: either name()      *)
(*               calls alone, or one name() and one identifier among one   *)
(*               event() call and few max/min/fuzz/flat calls              *)
(***************************************************************************)
Fuel(ev, set, dev, faults) ==
  [ev |-> ev, set |-> set, dev |-> dev, faults |-> faults,
   name |-> 0, id |-> 0]

\* fuel of a builder that is also given a name and identifiers
FuelNamed(ev, set, name, id) ==
  [Fuel(ev, set, 0, FALSE) EXCEPT !.name = name, !.id = id]

Start ==
  /\ pc = "start"
  /\ fd = 0
  /\ opened = {}
  /\ def = Zeroed
  /\ abs = <<>>
  /\ calls = <<>>
  /\ trace = <<>>

Init == Start /\ fuel = Fuel(MaxEvents, 0, 0, TRUE)

InitRange ==
  /\ Start
  /\ fuel \in {Fuel(1, MaxSetters, 0, FALSE),
               Fuel(MaxEvents, MaxFewSetters, 0, FALSE)}

InitDevice ==
  /\ Start
  /\ fuel \in {Fuel(0, 0, MaxDeviceOps, FALSE),
               Fuel(0, 0, MaxFaultyOps, TRUE)}

InitName ==
  /\ Start
  /\ fuel \in {FuelNamed(0, 0, MaxNames, 0),
               FuelNamed(1, 1, 1, 1)}

DoOpen == \E f \in Fds, r \in OpenResults : Open(f, r)
\* (the guard of Event comes first, so that the expansion of e is computed
\* only in the states where event() can be called)
DoEvent ==
  /\ pc = "builder" /\ fuel.ev > 0
  /\ \E e \in BuilderEvents :
       \E k \in 0..Len(Requests[e]), err \in IoctlErrors : Event(e, k, err)
DoCreate == \E rw \in WriteResults, rc \in IoctlResults : Create(rw, rc)
DoDeviceDrop == \E r \in DestroyResults : DeviceDrop(r)

Next ==
  \/ DoOpen
  \/ \E f \in Fds : New(f)
  \/ DoEvent
  \/ DoCreate
  \/ BuilderDrop
  \/ DoDeviceDrop

NextRange ==
  \/ DoOpen
  \/ DoEvent
  \/ \E v \in RangeValues : Max(v)
  \/ \E v \in RangeValues : Min(v)
  \/ \E v \in RangeValues : Fuzz(v)
  \/ \E v \in RangeValues : Flat(v)
  \/ DoCreate

NextDevice ==
  \/ DoOpen
  \/ \E f \in Fds : New(f)
  \/ DoCreate
  \/ \E r \in WriteResults : Synchronize(r)
  \/ \E e \in SendEvents, v \in SendValues, r \in WriteResults : Send(e, v, r)
  \/ \E e \in PressEvents, r \in WriteResults : Press(e, r)
  \/ \E e \in PressEvents, r \in WriteResults : Release(e, r)
  \/ \E e \in PressEvents, r1 \in WriteResults, r2 \in WriteResults :
       Click(e, r1, r2)
  \/ \E e \in PositionEvents, v \in PositionValues, r \in WriteResults :
       Position(e, v, r)
  \/ DoDeviceDrop

NextName ==
  \/ DoOpen
  \/ \E s \in NameInputs : Name(s)
  \/ \E v \in IdValues : Bus(v)
  \/ \E v \in IdValues : Vendor(v)
  \/ \E v \in IdValues : Product(v)
  \/ \E v \in IdValues : Version(v)
  \/ DoEvent
  \/ \E v \in RangeValues : Max(v)
  \/ \E v \in RangeValues : Min(v)
  \/ \E v \in RangeValues : Fuzz(v)
  \/ \E v \in RangeValues : Flat(v)
  \/ DoCreate

Spec == Init /\ [][Next]_vars
SpecRange == InitRange /\ [][NextRange]_vars
SpecDevice == InitDevice /\ [][NextDevice]_vars
SpecName == InitName /\ [][NextName]_vars

(***************************************************************************)
(* Vocabulary of the checked statements.                                   *)
(***************************************************************************)
\* the capability-registration requests
RegOps == {"ui_set_evbit", "ui_set_keybit", "ui_set_relbit", "ui_set_absbit"}

\* the calls the i-th API call of the history issued
Seg(i) ==
  SubSeq(calls, trace[i].base + 1,
         IF i < Len(trace) THEN trace[i + 1].base ELSE Len(calls))

Last == trace[Len(trace)]

IsDestroy(c) == c.op = "ui_dev_destroy"
IsEventWrite(c) == c.op = "write" /\ c.data = "input_event"
IsDescriptorWrite(c) == c.op = "write" /\ c.data = "uinput_user_dev"

\* the positions of the calls of each sort
Destroys == {i \in DOMAIN calls : IsDestroy(calls[i])}
DescriptorWrites == {i \in DOMAIN calls : IsDescriptorWrite(calls[i])}
FailedEventWrites ==
  {i \in DOMAIN calls : IsEventWrite(calls[i]) /\ calls[i].res \in WriteErrors}

(***************************************************************************)
(* C1: a Device that went out of scope had ui_dev_destroy issued on its    *)
(* handle exactly once, as the last call, whatever calls were made on it   *)
(* before and whether or not their writes failed; while the Device is      *)
(* alive no destroy call has been issued.                                  *)
(***************************************************************************)
C1_DestroyExactlyOnce ==
  /\ pc = "device" => Destroys = {}
  /\ pc = "device_dropped" =>
       /\ Destroys = {Len(calls)}
       /\ calls[Len(calls)].fd = fd

C1_Witness ==
  /\ pc = "device_dropped"
  /\ FailedEventWrites # {}
  /\ \E i \in DOMAIN trace : trace[i].op = "send" /\ trace[i].res # "ok"

(***************************************************************************)
(* C2: on every handle, each capability-registration call comes before    *)
(* the create-device call.                                                 *)
(***************************************************************************)
C2_RegistrationsPrecedeCreate ==
  \A i, j \in DOMAIN calls :
    (/\ calls[i].op = "ui_dev_create"
     /\ calls[j].op \in RegOps
     /\ calls[j].fd = calls[i].fd) => j < i

C2_Witness ==
  /\ pc = "device_dropped"
  /\ \E i, j \in DOMAIN calls :
       /\ calls[i].op = "ui_dev_create" /\ calls[i].res = "ok"
       /\ calls[j].op = "ui_set_relbit"

(***************************************************************************)
(* C3: a capability-registration call that returned an error is the last   *)
(* call ever issued on the builder's handle: event() returned that very    *)
(* error, the builder is gone, and no Device came of it.                   *)
(***************************************************************************)
C3_FailedRegistrationAborts ==
  \A i \in DOMAIN calls :
    (calls[i].op \in RegOps /\ calls[i].res # "ok") =>
      /\ i = Len(calls)
      /\ Last.op = "event"
      /\ Last.res = calls[i].res
      /\ pc = "builder_dropped"

C3_Witness ==
  /\ Len(trace) = 3
  /\ trace[2].op = "event" /\ trace[2].res = "ok"
  /\ Last.op = "event" /\ Last.ev = <<AllEvents>> /\ Last.res = "EPERM"
  /\ Len(Seg(3)) = 5

(***************************************************************************)
(* C4: event() of a concrete Keyboard, Controller, Relative or Absolute    *)
(* event issues the event-class request first and the request of the       *)
(* class's code second; the second is issued iff the first succeeded, and  *)
(* event() succeeds iff both did.                                          *)
(***************************************************************************)
CodeRequestOf(class) ==
  CASE class = "Keyboard" -> "ui_set_keybit"
    [] class = "Controller" -> "ui_set_keybit"
    [] class = "Relative" -> "ui_set_relbit"
    [] class = "Absolute" -> "ui_set_absbit"

ConcreteEventCalls == {i \in DOMAIN trace :
                         trace[i].op = "event" /\ ~IsAll(trace[i].ev[1])}

C4_ClassBitThenCodeBit ==
  \A i \in ConcreteEventCalls :
    LET e == trace[i].ev[1]
        seg == Seg(i)
    IN /\ Len(seg) \in {1, 2}
       /\ seg[1].op = "ui_set_evbit"
       /\ seg[1].arg = <<Kind(e)>>
       /\ seg[1].fd = fd
       /\ Len(seg) = 2 <=> seg[1].res = "ok"
       /\ Len(seg) = 2 =>
            /\ seg[2].op = CodeRequestOf(e.class)
            /\ seg[2].arg = <<Code(e)>>
            /\ seg[2].fd = fd
       /\ trace[i].res = "ok" <=>
            (Len(seg) = 2 /\ seg[1].res = "ok" /\ seg[2].res = "ok")

C4_Witness ==
  /\ Len(trace) = 3
  /\ trace[2].op = "event" /\ trace[2].ev = <<AbsX>> /\ trace[2].res = "ok"
  /\ trace[3].op = "event" /\ trace[3].ev = <<Esc>> /\ trace[3].res = "EINVAL"
  /\ Len(Seg(3)) = 2

(***************************************************************************)
(* C5: when no absolute axis is configured - no event() call was made yet, *)
(* or the most recent one registered something other than a concrete       *)
(* Absolute axis - a call of max, min, fuzz or flat is rejected (it        *)
(* panics) and leaves all four arrays as they were.                        *)
(***************************************************************************)
RangeOps == {"max", "min", "fuzz", "flat"}

EventCalls == {i \in DOMAIN trace : trace[i].op = "event"}

LastEventCall == CHOOSE i \in EventCalls : \A j \in EventCalls : j <= i

NoAxisSelected ==
  /\ pc = "builder"
  /\ \/ EventCalls = {}
     \/ trace[LastEventCall].ev[1].class # "Absolute"

C5_SetterRejectedWithoutAxis ==
  [][(/\ NoAxisSelected
      /\ Len(trace') = Len(trace) + 1
      /\ trace'[Len(trace')].op \in RangeOps)
     => (/\ trace'[Len(trace')].res = "panic"
         /\ def' = def
         /\ pc' = "builder_dropped")]_vars

C5_Witness ==
  /\ Len(trace) = 4
  /\ trace[2].op = "event" /\ trace[2].ev = <<AbsX>>
  /\ trace[3].op = "event" /\ trace[3].ev = <<KeyboardAll>>
  /\ trace[4].op = "fuzz" /\ trace[4].res = "panic"
  /\ def = Zeroed

(***************************************************************************)
(* C6: on a fresh builder, after event(Absolute(A)) and any of max, min,   *)
(* fuzz, flat, each called at most once and in any order, each array holds *)
(* at index A the value its setter was given (zero if the setter was not   *)
(* called yet) and zero at every other index.                              *)
(***************************************************************************)
FreshAxisRun ==
  /\ Len(trace) >= 2
  /\ trace[1].op = "open"
  /\ trace[2].op = "event" /\ trace[2].res = "ok"
  /\ trace[2].ev[1].class = "Absolute" /\ ~IsAll(trace[2].ev[1])
  /\ \A i \in 3..Len(trace) : trace[i].op \in RangeOps
  /\ \A i, j \in 3..Len(trace) : trace[i].op = trace[j].op => i = j

\* the value the setter op was called with, zero if it was not called
Given(op) ==
  IF \E i \in DOMAIN trace : trace[i].op = op
    THEN trace[CHOOSE i \in DOMAIN trace : trace[i].op = op].val
    ELSE 0

\* arr holds v at index a and zero at every other index
OnlyAt(arr, a, v) ==
  \A i \in 0..(ABS_CNT - 1) : At(arr, i) = IF i = a THEN v ELSE 0

C6_RangeStoredAtAxis ==
  FreshAxisRun =>
    LET a == Code(trace[2].ev[1]) IN
      /\ OnlyAt(def.absmax, a, Given("max"))
      /\ OnlyAt(def.absmin, a, Given("min"))
      /\ OnlyAt(def.absfuzz, a, Given("fuzz"))
      /\ OnlyAt(def.absflat, a, Given("flat"))

C6_Witness ==
  /\ FreshAxisRun
  /\ Len(trace) = 6
  /\ trace[2].ev = <<AbsY>>
  /\ trace[3].op = "flat"
  /\ Given("max") = 10 /\ Given("min") = -10
  /\ At(def.absmax, 1) = 10 /\ At(def.absmin, 1) = -10
  /\ At(def.absmax, 0) = 0

(***************************************************************************)
(* C7: create() issues the descriptor write once, then - iff the write did *)
(* not return an error - the create-device call directly after it, and     *)
(* nothing else; it returns a Device iff neither call failed, and          *)
(* otherwise returns the failing call's error and leaves no Device.  No    *)
(* other descriptor write is ever issued.                                  *)
(***************************************************************************)
CreateCallsInTrace == {i \in DOMAIN trace : trace[i].op = "create"}

C8_FailedCreateClosesHandle ==
  \A i \in CreateCallsInTrace :
    trace[i].res # "ok" => (fd \notin opened /\ Destroys = {})

(***************************************************************************)
(* C9: while every device call made so far is a send, press, release,      *)
(* position or synchronize that returned Ok, the event records handed to   *)
(* write() are one per call, in call order, each with the call's kind,     *)
(* code and value (1 for press, 0 for release, (EV_SYN, SYN_REPORT, 0) for *)
(* synchronize); send(X, 50), send(Y, 50), synchronize() writes            *)
(* (2, 0, 50), (2, 1, 50), (0, 0, 0).                                      *)
(***************************************************************************)
PlainOps == {"send", "press", "release", "position", "synchronize"}
DeviceOps == PlainOps \cup {"click"}

IsDeviceOp(t) == t.op \in DeviceOps

DeviceTrace == SelectSeq(trace, IsDeviceOp)
EventWrites == SelectSeq(calls, IsEventWrite)

Record(t) ==
  CASE t.op = "synchronize" -> <<EV_SYN, SYN_REPORT, 0>>
    [] t.op = "press" -> <<Kind(t.ev[1]), Code(t.ev[1]), 1>>
    [] t.op = "release" -> <<Kind(t.ev[1]), Code(t.ev[1]), 0>>
    [] t.op \in {"send", "position"} ->
         <<Kind(t.ev[1]), Code(t.ev[1]), t.val>>

AllPlainAndOk ==
  \A i \in DOMAIN DeviceTrace :
    DeviceTrace[i].op \in PlainOps /\ DeviceTrace[i].res = "ok"

MouseScenario ==
  /\ Len(DeviceTrace) = 3
  /\ DeviceTrace[1].op = "send" /\ DeviceTrace[1].ev = <<X>>
  /\ DeviceTrace[1].val = 50
  /\ DeviceTrace[2].op = "send" /\ DeviceTrace[2].ev = <<Y>>
  /\ DeviceTrace[2].val = 50
  /\ DeviceTrace[3].op = "synchronize"

C9_OneRecordPerCall ==
  AllPlainAndOk =>
    /\ Len(EventWrites) = Len(DeviceTrace)
    /\ \A i \in DOMAIN EventWrites :
         /\ EventWrites[i].arg = Record(DeviceTrace[i])
         /\ EventWrites[i].fd = fd
    /\ MouseScenario =>
         [i \in 1..3 |-> EventWrites[i].arg]
           = <<<<2, 0, 50>>, <<2, 1, 50>>, <<0, 0, 0>>>>

C9_Witness ==
  /\ AllPlainAndOk
  /\ MouseScenario
  /\ \A i \in DOMAIN EventWrites : EventWrites[i].res = "full"
  /\ pc = "device"

(***************************************************************************)
(* C10 as stated: every click(event) issues exactly two writes, the record *)
(* with value 1 and then the record with value 0.                          *)
(***************************************************************************)
ClickCallsInTrace == {i \in DOMAIN trace : trace[i].op = "click"}

PressRecord(e) == <<Kind(e), Code(e), 1>>
ReleaseRecord(e) == <<Kind(e), Code(e), 0>>

C10_ClickAlwaysTwoWrites ==
  \A i \in ClickCallsInTrace :
    LET seg == Seg(i) IN
      /\ Len(seg) = 2
      /\ IsEventWrite(seg[1]) /\ seg[1].arg = PressRecord(trace[i].ev[1])
      /\ IsEventWrite(seg[2]) /\ seg[2].arg = ReleaseRecord(trace[i].ev[1])

(***************************************************************************)
(* C10 amended: click(event) first writes the record with value 1; if that *)
(* write returns an error click returns it and writes nothing more;        *)
(* otherwise the record with value 0 is written directly after it, and     *)
(* click returns the result of that second write.                          *)
(***************************************************************************)
C10_ClickPressThenRelease ==
  \A i \in ClickCallsInTrace :
    LET seg == Seg(i)
        e == trace[i].ev[1]
    IN /\ Len(seg) \in {1, 2}
       /\ IsEventWrite(seg[1]) /\ seg[1].arg = PressRecord(e)
       /\ seg[1].fd = fd
       /\ Len(seg) = 1 <=> seg[1].res \in WriteErrors
       /\ Len(seg) = 1 => trace[i].res = seg[1].res
       /\ Len(seg) = 2 =>
            /\ IsEventWrite(seg[2]) /\ seg[2].arg = ReleaseRecord(e)
            /\ seg[2].fd = fd
            /\ trace[i].res = "ok" <=> seg[2].res \notin WriteErrors
            /\ trace[i].res # "ok" => trace[i].res = seg[2].res

C10_Witness ==
  /\ Len(trace) > 0
  /\ Last.op = "click"
  /\ Len(Seg(Len(trace))) = 2
  /\ Seg(Len(trace))[1].res = "full"
  /\ Seg(Len(trace))[2].res = "ENODEV"
  /\ Last.res = "ENODEV"

(***************************************************************************)
(* C11: send(event, value) returns an error whenever its write transferred *)
(* fewer bytes than the whole record or returned an error, and returns Ok  *)
(* only when the whole record was written.                                 *)
(***************************************************************************)
SendCalls == {i \in DOMAIN trace : trace[i].op = "send"}

C11_SendFailsOnShortWrite ==
  \A i \in SendCalls :
    /\ Len(Seg(i)) = 1
    /\ trace[i].res = "ok" <=> Seg(i)[1].res = "full"

(***************************************************************************)
(* C12 as stated: name(value) succeeds if and only if the encoded length   *)
(* of value, its terminator included, is at most the capacity of the name  *)
(* buffer.                                                                 *)
(***************************************************************************)
NameCalls == {i \in DOMAIN trace : trace[i].op = "name"}

RECURSIVE EncodedLength(_)
\* the number of bytes of the UTF-8 encoding of s
EncodedLength(s) ==
  IF s = <<>> THEN 0
  ELSE (IF Head(s) < 128 THEN 1 ELSE 2) + EncodedLength(Tail(s))

FitsBuffer(s) == EncodedLength(s) + 1 <= UINPUT_MAX_NAME_SIZE

ContainsZero(s) == \E i \in DOMAIN s : s[i] = 0

C12_NameOkIffFits ==
  \A i \in NameCalls : trace[i].res = "ok" <=> FitsBuffer(trace[i].val)

(***************************************************************************)
(* C12 amended: name(value) succeeds if and only if value holds no zero    *)
(* byte and its encoded length, terminator included, is at most the        *)
(* capacity of the name buffer; a value with a zero byte is refused        *)
(* whatever its length; among the values without one, a value of exactly   *)
(* the capacity succeeds and one a byte longer fails.                      *)
(***************************************************************************)
C12_NameOkIffFitsAndNoZero ==
  \A i \in NameCalls :
    LET s == trace[i].val IN
      /\ trace[i].res = "ok" <=> (~ContainsZero(s) /\ FitsBuffer(s))
      /\ ContainsZero(s) => trace[i].res = "NulError"
      /\ (~ContainsZero(s) /\ EncodedLength(s) + 1 = UINPUT_MAX_NAME_SIZE)
           => trace[i].res = "ok"
      /\ (~ContainsZero(s) /\ EncodedLength(s) + 1 = UINPUT_MAX_NAME_SIZE + 1)
           => trace[i].res = "EINVAL"

C12_Witness ==
  /\ Len(trace) = 3
  /\ trace[2].op = "name" /\ trace[2].res = "ok"
  /\ trace[2].val = Rep(233, (UINPUT_MAX_NAME_SIZE \div 2) - 1) \o <<97>>
  /\ trace[3].op = "name" /\ trace[3].res = "EINVAL"
  /\ trace[3].val = Rep(97, UINPUT_MAX_NAME_SIZE)
  /\ pc = "builder_dropped"

(***************************************************************************)
(* C13: a successful event() of an "all" pseudo-variant of class C issues  *)
(* code registrations whose set is the full enumeration of C's concrete    *)
(* codes, none twice, and in the same order whenever it is called; the     *)
(* "all events" pseudo-variant registers every keyboard code and then      *)
(* every controller code.                                                  *)
(***************************************************************************)
\* the full enumeration of the concrete codes of a class
ClassCodes(class) ==
  {CodeBase(class, s) + i :
     s \in (IF class = "Keyboard" THEN KeyboardVariants
                                  ELSE ControllerVariants),
     i \in 0..(NVariants - 1)}

IsCodeRegistration(c) == c.op \in RegOps \ {"ui_set_evbit"}

\* the codes the i-th API call registered, in the order of its requests
CodesOf(i) ==
  LET regs == SelectSeq(Seg(i), IsCodeRegistration)
  IN [j \in DOMAIN regs |-> regs[j].arg[1]]

Elements(seq) == {seq[j] : j \in DOMAIN seq}

AllCallsOk == {i \in DOMAIN trace : /\ trace[i].op = "event"
                                    /\ trace[i].res = "ok"
                                    /\ IsAll(trace[i].ev[1])}

AllCallsFailed == {i \in DOMAIN trace : /\ trace[i].op = "event"
                                        /\ trace[i].res # "ok"
                                        /\ IsAll(trace[i].ev[1])}

C14_AllStopsAtFirstFailure ==
  \A i \in AllCallsFailed :
    LET e == trace[i].ev[1]
        seg == Seg(i)
        n == Len(seg)
        whole == Requests[e]
    IN /\ n \in 1..Len(whole)
       /\ \A j \in 1..n :
            /\ seg[j].op = whole[j].op /\ seg[j].arg = whole[j].arg
            /\ seg[j].fd = fd
            /\ seg[j].res = "ok" <=> j < n
       /\ trace[i].res = seg[n].res
       /\ i = Len(trace) /\ trace[i].base + n = Len(calls)
       /\ pc = "builder_dropped"
       /\ \A j \in DOMAIN calls : calls[j].op \in RegOps
       /\ (e.class = "All" /\ n <= 2 * Cardinality(ClassCodes("Keyboard")))
            => Elements(CodesOf(i)) \cap ClassCodes("Controller") = {}

C14_Witness ==
  /\ Len(trace) = 3
  /\ trace[2].op = "event" /\ trace[2].ev = <<Left>> /\ trace[2].res = "ok"
  /\ AllCallsFailed = {3}
  /\ trace[3].ev = <<AllEvents>> /\ trace[3].res = "EINVAL"
  /\ Len(Seg(3)) = 6
  /\ Len(calls) = 8

(***************************************************************************)
(* C15: a send, press, release, position or synchronize whose write failed *)
(* leaves the Device as it was: the Device is still live right after it,   *)
(* no destroy call is issued before the Device is dropped, and every later *)
(* call on the Device hands its own record to write() on the same handle   *)
(* and succeeds or fails by that write alone.                              *)
(***************************************************************************)
FailedPlainCalls == {i \in DOMAIN trace : /\ trace[i].op \in PlainOps
                                          /\ trace[i].res # "ok"}

C15_FailedWriteLeavesDeviceLive ==
  \A i \in FailedPlainCalls :
    /\ Len(Seg(i)) = 1
    /\ IsEventWrite(Seg(i)[1])
    /\ Seg(i)[1].res = trace[i].res
    /\ i = Len(trace) => pc = "device"
    /\ \A d \in Destroys : d = Len(calls) /\ Last.op = "drop_device"
    /\ \A k \in (i + 1)..Len(trace) :
         trace[k].op \in PlainOps =>
           /\ Len(Seg(k)) = 1
           /\ IsEventWrite(Seg(k)[1])
           /\ Seg(k)[1].arg = Record(trace[k])
           /\ Seg(k)[1].fd = Seg(i)[1].fd
           /\ trace[k].res = "ok" <=> Seg(k)[1].res \notin WriteErrors

C15_Witness ==
  /\ pc = "device"
  /\ Len(DeviceTrace) = 2
  /\ FailedPlainCalls = {Len(trace) - 1}
  /\ trace[Len(trace) - 1].op = "send" /\ Last.op = "send"
  /\ trace[Len(trace) - 1].ev = Last.ev
  /\ Last.res = "ok"
  /\ calls[Len(calls)].res = "full"

(***************************************************************************)
(* C16 as stated: after name, bus, vendor, product, version, max, min,     *)
(* fuzz, flat or an event() of anything but a concrete Absolute axis, the  *)
(* builder has no axis configured.                                         *)
(***************************************************************************)
IdOps == {"bus", "vendor", "product", "version"}
NonEventOps == {"name"} \cup IdOps \cup RangeOps

ClearsAxis(t) ==
  \/ t.op \in NonEventOps
  \/ t.op = "event" /\ t.ev[1].class # "Absolute"

C16_AxisClearedByEveryOperation ==
  (pc = "builder" /\ Len(trace) > 0 /\ ClearsAxis(Last)) => abs = <<>>

(***************************************************************************)
(* C16 amended: only event() touches the configured axis.  A call of name, *)
(* bus, vendor, product, version, max, min, fuzz or flat that returns the  *)
(* builder leaves the axis as it was; a successful event() of anything but *)
(* a concrete Absolute axis leaves no axis configured, and a successful    *)
(* event(Absolute(A)) leaves A configured.                                 *)
(***************************************************************************)
C16_OnlyEventChangesAxis ==
  [][(Len(trace') = Len(trace) + 1 /\ pc' = "builder") =>
       LET t == trace'[Len(trace')] IN
         /\ t.op \in NonEventOps => abs' = abs
         /\ t.op = "event" =>
              abs' = IF t.ev[1].class = "Absolute" THEN <<Code(t.ev[1])>>
                                                  ELSE <<>>]_vars

C16_Witness ==
  /\ pc = "builder"
  /\ Len(trace) = 5
  /\ trace[2].op = "event" /\ trace[2].ev = <<AbsY>>
  /\ trace[3].op = "name" /\ trace[3].res = "ok"
  /\ trace[4].op = "vendor"
  /\ trace[5].op = "max" /\ trace[5].res = "ok"
  /\ abs = <<1>>
  /\ At(def.absmax, 1) = trace[5].val

(***************************************************************************)
(* C17: on a builder all of whose event() calls succeeded, the configured  *)
(* axis is the code of A when the most recent event() call registered the  *)
(* concrete Absolute axis A, and none when it registered anything else or  *)
(* when event() was not called yet.                                        *)
(***************************************************************************)
ExpectedAxis ==
  IF EventCalls = {} THEN <<>>
  ELSE LET e == trace[LastEventCall].ev[1]
       IN IF e.class = "Absolute" /\ ~IsAll(e) THEN <<Code(e)>> ELSE <<>>

C17_AxisFollowsLastEvent ==
  pc = "builder" =>
    /\ \A i \in EventCalls : trace[i].res = "ok"
    /\ abs = ExpectedAxis

C17_Witness ==
  /\ pc = "builder"
  /\ Len(trace) = 4
  /\ trace[2].op = "event" /\ trace[2].ev = <<AbsX>>
  /\ trace[3].op = "min" /\ trace[3].res = "ok"
  /\ trace[4].op = "event" /\ trace[4].ev = <<AbsY>>
  /\ abs = <<Code(AbsY)>>

(***************************************************************************)
(* C18: in every builder state, and in every descriptor create() handed to *)
(* write(), an entry of absmax, absmin, absfuzz or absflat is zero unless  *)
(* its index is the code of an Absolute axis that a successful event()     *)
(* call registered on the builder.                                         *)
(***************************************************************************)
RegisteredAxes ==
  {Code(trace[i].ev[1]) :
     i \in {j \in EventCalls : /\ trace[j].res = "ok"
                               /\ trace[j].ev[1].class = "Absolute"
                               /\ ~IsAll(trace[j].ev[1])}}

\* arr is zero off the axes: an index outside DOMAIN arr reads as zero, so only
\* the entries written since mem::zeroed() are looked at
ZeroOff(axes, arr) ==
  /\ DOMAIN arr \subseteq 0..(ABS_CNT - 1)
  /\ \A i \in DOMAIN arr \ axes : arr[i] = 0

RangesZeroOff(axes, d) ==
  /\ ZeroOff(axes, d.absmax)
  /\ ZeroOff(axes, d.absmin)
  /\ ZeroOff(axes, d.absfuzz)
  /\ ZeroOff(axes, d.absflat)

C18_UnregisteredAxesZero ==
  /\ pc = "builder" => RangesZeroOff(RegisteredAxes, def)
  /\ \A w \in DescriptorWrites :
       RangesZeroOff(RegisteredAxes, calls[w].arg[1])

C18_Witness ==
  /\ pc = "device"
  /\ Len(trace) = 5
  /\ trace[2].op = "event" /\ trace[2].ev = <<AbsY>>
  /\ trace[3].op = "max" /\ trace[3].val = 10
  /\ trace[4].op = "event" /\ trace[4].ev = <<X>>
  /\ trace[5].op = "create" /\ trace[5].res = "ok"
  /\ DescriptorWrites = {Len(calls) - 1}
  /\ At(calls[Len(calls) - 1].arg[1].absmax, 1) = 10
  /\ At(calls[Len(calls) - 1].arg[1].absmax, 0) = 0

(***************************************************************************)
(* C19: a Device comes only of a successful create(): whenever a Device    *)
(* exists or was dropped, a create() call returned Ok before, and every    *)
(* destroy call is issued on a handle on which a descriptor write and then *)
(* a create-device call succeeded before it.                               *)
(***************************************************************************)
CreatedBefore(d) ==
  \E w, c \in 1..(d - 1) :
    /\ w < c
    /\ IsDescriptorWrite(calls[w]) /\ calls[w].res \notin WriteErrors
    /\ calls[c].op = "ui_dev_create" /\ calls[c].res = "ok"
    /\ calls[w].fd = calls[d].fd /\ calls[c].fd = calls[d].fd

C19_DeviceOnlyFromCreate ==
  /\ pc \in {"device", "device_dropped"} =>
       \E i \in CreateCallsInTrace : trace[i].res = "ok"
  /\ \A d \in Destroys : CreatedBefore(d)

(***************************************************************************)
(* C20: on a builder, the name buffer holds a zero byte, and the bytes     *)
(* before its first zero byte, read as a string, are the name the most     *)
(* recent successful name() call was given (the empty string if there was  *)
(* none), also when a shorter name follows a longer one.                   *)
(***************************************************************************)
NameIndexes == 0..(UINPUT_MAX_NAME_SIZE - 1)

HoldsZero(buf) == \E i \in NameIndexes : At(buf, i) = 0

FirstZero(buf) ==
  CHOOSE i \in NameIndexes :
    At(buf, i) = 0 /\ \A j \in 0..(i - 1) : At(buf, j) # 0

\* the bytes of the null-terminated string in buf
CStr(buf) == [j \in 1..FirstZero(buf) |-> U8(At(buf, j - 1))]

RECURSIVE FromUtf8(_)
\* the code points of a UTF-8 byte string of one- and two-byte sequences
FromUtf8(bs) ==
  IF bs = <<>> THEN <<>>
  ELSE IF bs[1] < 128 THEN <<bs[1]>> \o FromUtf8(Tail(bs))
  ELSE <<(bs[1] - 192) * 64 + (bs[2] - 128)>> \o FromUtf8(Tail(Tail(bs)))

NamesSet == {i \in NameCalls : trace[i].res = "ok"}

LastNameSet ==
  IF NamesSet = {} THEN <<>>
  ELSE trace[CHOOSE i \in NamesSet : \A j \in NamesSet : j <= i].val

C20_BufferReadsLastName ==
  pc = "builder" =>
    /\ HoldsZero(def.name)
    /\ FromUtf8(CStr(def.name)) = LastNameSet

C20_Witness ==
  /\ pc = "builder"
  /\ Len(trace) = 3
  /\ trace[2].op = "name"
  /\ trace[2].val = Rep(233, (UINPUT_MAX_NAME_SIZE \div 2) - 1) \o <<97>>
  /\ trace[3].op = "name" /\ trace[3].val = <<116, 101>>
  /\ FirstZero(def.name) = 2
  /\ At(def.name, 3) = I8(169)
  /\ At(def.name, UINPUT_MAX_NAME_SIZE - 1) = 0

====
